---- MODULE Spec2Model ----
(***************************************************************************)
(* Plan validation and execution engine of the ISLD pipeline:              *)
(*   app/core/plan.py      Plan, PlanValidator, _classify_phase            *)
(*   app/core/executor.py  SelectRegistry, Executor.execute                *)
(*   app/funcs/base.py     ExecutionContext                                *)
(*   app/funcs/f01..f99    build_sql of the Funcs of the default library   *)
(* One behaviour is one call of Executor.execute on a plan, an output list *)
(* and the two debug switches; the store answers each statement with       *)
(* success or failure.                                                     *)
(***************************************************************************)
EXTENDS Integers, Sequences, FiniteSets, TLC

VARIABLES plan, outputs, dry_run, stop_after,
          pc, idx, out_idx, ctx, select_registry, deferred_cleanup,
          cleanup_pos, tables, files, trace, error, ret,
          \* two ExecutionContexts of two execute calls on one store
          ctx_a, ctx_b, allocs, ctx_raised,
          \* one Func building its SQL from two argument maps
          q_func, q_args, q_out,
          \* one scope or unique step applied to the rows of its source
          d_op, d_spec, d_rows, d_out,
          \* one process run of main(): config, store file, exit
          m_pc, m_in, m_store, m_built, m_exit

exec_vars == <<plan, outputs, dry_run, stop_after, pc, idx, out_idx, ctx,
               select_registry, deferred_cleanup, cleanup_pos, tables, files,
               trace, error, ret>>

ctx_vars == <<ctx_a, ctx_b, allocs, ctx_raised>>

sql_vars == <<q_func, q_args, q_out>>

data_vars == <<d_op, d_spec, d_rows, d_out>>

main_vars == <<m_pc, m_in, m_store, m_built, m_exit>>

\* the variables Executor.execute does not touch
aux == <<ctx_vars, sql_vars, data_vars, main_vars>>

vars == <<exec_vars, aux>>

inputs == <<plan, outputs, dry_run, stop_after>>

----------------------------------------------------------------------------
(* Bounds and input universes *)

MaxPlanLen == 3

None == "None"

RunIds == {"0a1b2c3d"}
JobIds == {"jobA"}

\* tmp__{run_id}__{job_id}__{step_counter:02d}__{logical_name}
PhysicalName(run_id, job_id, counter, logical_name) ==
    <<"tmp", run_id, job_id, counter, logical_name>>

IsldPure == <<"isld_pure", "", "", 0, "">>
NoTable == <<"", "", "", 0, "">>

\* create_default_library: the nine registered Funcs
SelectFuncs == {"sel_filing_count_ts", "sel_lag_stats", "sel_top_specs_ts",
                "sel_company_rank", "sel_spec_company_heat"}
DefaultLibrary == {"scope", "unique", "enrich", "cleanup"} \cup SelectFuncs

\* FuncLibrary.has
has(name) == name \in DefaultLibrary

produces_AllTemp(name) == "temp"

\* FuncSignature.produces of the registered Funcs
produces(name) == IF name \in SelectFuncs THEN "select" ELSE "temp"

\* The steps plans are drawn from: FuncRef(func_name, args["source"], save_as)
Step(f, s, src) == [func_name |-> f, save_as |-> s, source |-> src]

StepUniverse ==
    { Step("scope", "scope", "isld_pure"),
      Step("scope", "scope2", "scope"),
      Step("unique", "uq", "scope"),
      Step("enrich", "enriched", "uq"),
      Step("sel_filing_count_ts", "sel__A", "scope"),
      Step("sel_company_rank", "scope", "isld_pure"),
      Step("cleanup", "", ""),
      Step("sel_debug", "dbg", "isld_pure") }

Plans == UNION { [1..n -> StepUniverse] : n \in 0..MaxPlanLen }

OutputLists == { <<"sel__A">>, <<"sel__A", "scope">> }

StopAfterValues == {None, "scope", "enrich", "cleanup"}

----------------------------------------------------------------------------
(* core/types.py: exceptions *)

NoError == [type |-> "None", index |-> -1, reason |-> ""]
PlanError(i, why) == [type |-> "PlanError", index |-> i, reason |-> why]
KeyError(i, why) == [type |-> "KeyError", index |-> i, reason |-> why]
SqlError(i, why) == [type |-> "SqlError", index |-> i, reason |-> why]

----------------------------------------------------------------------------
(* core/plan.py: PlanValidator *)

\* str.startswith on the func names of the model
NamesStartingWith ==
    [scope |-> {"scope"}, unique |-> {"unique"}, enrich |-> {"enrich"}]

classify_phase(func_name) ==
    IF func_name \in NamesStartingWith["scope"] THEN "scope"
    ELSE IF func_name \in NamesStartingWith["unique"] THEN "unique"
    ELSE IF func_name \in NamesStartingWith["enrich"] THEN "enrich"
    ELSE None

order_phases == [scope |-> 0, unique |-> 1, enrich |-> 2]

IsDuplicateSave_Never(save_as, seen_saves) == FALSE

\* if step.save_as: if step.save_as in seen_saves: raise
IsDuplicateSave(save_as, seen_saves) ==
    save_as # "" /\ save_as \in seen_saves

PhaseViolates_Strict(phase_order, last_phase) == phase_order <= last_phase

\* if phase_order < last_phase: raise
PhaseViolates(phase_order, last_phase) == phase_order < last_phase

has_Anything(name) == TRUE

\* if not library.has(step.func_name): raise
IsRegistered(name) == has(name)

\* The per-step loop of validate; i is the 1-based position, the error
\* carries the 0-based index of enumerate().
RECURSIVE ValidateFrom(_, _, _, _)
ValidateFrom(p, i, seen_saves, last_phase) ==
    IF i > Len(p) THEN NoError
    ELSE
      LET step == p[i]
          phase == classify_phase(step.func_name)
          seen2 == IF step.save_as # "" THEN seen_saves \cup {step.save_as}
                   ELSE seen_saves
      IN IF ~IsRegistered(step.func_name)
           THEN PlanError(i - 1, "unregistered")
         ELSE IF IsDuplicateSave(step.save_as, seen_saves)
           THEN PlanError(i - 1, "duplicate")
         ELSE IF phase # None /\ PhaseViolates(order_phases[phase], last_phase)
           THEN PlanError(i - 1, "order")
         ELSE ValidateFrom(p, i + 1, seen2,
                           IF phase # None THEN order_phases[phase]
                           ELSE last_phase)

validate(p) == ValidateFrom(p, 1, {}, -1)

----------------------------------------------------------------------------
(* funcs/base.py: ExecutionContext; _temp_map is an insertion-ordered dict *)

NewContext(run_id, job_id) ==
    [run_id |-> run_id, job_id |-> job_id, temp_map |-> <<>>, step_counter |-> 0]

MapHas(m, k) == \E n \in 1..Len(m) : m[n].logical = k
MapGet(m, k) == (CHOOSE n \in 1..Len(m) : m[n].logical = k)
MapPut_KeepFirst(m, k, v) ==
    IF MapHas(m, k) THEN m ELSE Append(m, [logical |-> k, physical |-> v])

\* _temp_map[logical_name] = physical
MapPut(m, k, v) ==
    IF MapHas(m, k)
    THEN [n \in 1..Len(m) |->
            IF m[n].logical = k THEN [logical |-> k, physical |-> v] ELSE m[n]]
    ELSE Append(m, [logical |-> k, physical |-> v])

\* returns the new context and the physical name
allocate_temp(c, logical_name) ==
    LET n == c.step_counter + 1
        physical == PhysicalName(c.run_id, c.job_id, n, logical_name)
    IN [ctx |-> [c EXCEPT !.step_counter = n,
                          !.temp_map = MapPut(c.temp_map, logical_name, physical)],
        physical |-> physical]

CanResolve(c, logical_name) ==
    logical_name = "isld_pure" \/ MapHas(c.temp_map, logical_name)

\* defined where CanResolve holds; KeyError otherwise
resolve_temp(c, logical_name) ==
    IF logical_name = "isld_pure" THEN IsldPure
    ELSE c.temp_map[MapGet(c.temp_map, logical_name)].physical

all_temps(c) == [n \in 1..Len(c.temp_map) |-> c.temp_map[n].physical]

----------------------------------------------------------------------------
(* funcs/f01..f99: build_sql.  A statement is (kind, table, from). *)

Stmt(kind, table, from) == [kind |-> kind, table |-> table, from |-> from]

\* logical name each materializing Func allocates
AllocatedLogical ==
    [scope |-> "scope", unique |-> "uq", enrich |-> "enriched"]

BuildResult(raised, c, sql) == [raised |-> raised, ctx |-> c, sql |-> sql]

\* ScopeFunc, UniqueFunc, EnrichFunc: resolve the source, then allocate
build_temp(c, step) ==
    IF ~CanResolve(c, step.source) THEN BuildResult(TRUE, c, <<>>)
    ELSE LET a == allocate_temp(c, AllocatedLogical[step.func_name])
         IN BuildResult(FALSE, a.ctx,
                        <<Stmt("create", a.physical, resolve_temp(c, step.source))>>)

build_select_Allocating(c, step) ==
    IF ~CanResolve(c, step.source) THEN BuildResult(TRUE, c, <<>>)
    ELSE LET a == allocate_temp(c, step.save_as)
         IN BuildResult(FALSE, a.ctx,
                        <<Stmt("query", NoTable, resolve_temp(c, step.source))>>)

\* the sel_* Funcs: resolve the source, return the query
build_select(c, step) ==
    IF ~CanResolve(c, step.source) THEN BuildResult(TRUE, c, <<>>)
    ELSE BuildResult(FALSE, c,
                     <<Stmt("query", NoTable, resolve_temp(c, step.source))>>)

\* CleanupFunc: one DROP per entry of all_temps(), "SELECT 1;" when empty
build_cleanup(c) ==
    LET temps == all_temps(c)
    IN BuildResult(FALSE, c,
         IF Len(temps) = 0 THEN <<Stmt("select1", NoTable, NoTable)>>
         ELSE [n \in 1..Len(temps) |-> Stmt("drop", temps[n], NoTable)])

build_sql(c, step) ==
    IF step.func_name = "cleanup" THEN build_cleanup(c)
    ELSE IF step.func_name \in SelectFuncs THEN build_select(c, step)
    ELSE build_temp(c, step)

----------------------------------------------------------------------------
(* The store: the set of intermediate tables; isld_pure always exists *)

TableExists(t, tbls) == t = IsldPure \/ t \in tbls

ApplyStmt(s, tbls) ==
    IF s.kind = "create" THEN tbls \cup {s.table}
    ELSE IF s.kind = "drop" THEN tbls \ {s.table}
    ELSE tbls

RECURSIVE ApplyAll(_, _)
ApplyAll(sql, tbls) ==
    IF sql = <<>> THEN tbls ELSE ApplyAll(Tail(sql), ApplyStmt(Head(sql), tbls))

Event(op, step, table, ok) == [op |-> op, step |-> step, table |-> table, ok |-> ok]

RECURSIVE StmtEvents(_, _)
StmtEvents(sql, step) ==
    IF sql = <<>> THEN <<>>
    ELSE <<Event(Head(sql).kind, step, Head(sql).table, TRUE)>>
         \o StmtEvents(Tail(sql), step)

----------------------------------------------------------------------------
(* core/executor.py: SelectRegistry *)

RegistryHas(reg, ref_name) == \E s \in reg : s.ref_name = ref_name
RegistryGet(reg, ref_name) == CHOOSE s \in reg : s.ref_name = ref_name

register_KeepOld(reg, ref_name, sql) == reg

register(reg, ref_name, sql) ==
    {s \in reg : s.ref_name # ref_name} \cup {[ref_name |-> ref_name, sql |-> sql]}

\* no second execute call is in progress
CtxIdle ==
    /\ ctx_a = NewContext("", "")
    /\ ctx_b = NewContext("", "")
    /\ allocs = <<>>
    /\ ctx_raised = None

\* no build_sql call is examined on its own
SqlIdle ==
    /\ q_func = None
    /\ q_args = <<>>
    /\ q_out = <<>>

\* no step is examined on the rows of its source
DataIdle ==
    /\ d_op = None
    /\ d_spec = [op |-> None]
    /\ d_rows = {}
    /\ d_out = <<>>

\* main() is not followed step by step
MainIdle ==
    /\ m_pc = "idle"
    /\ m_in = [config_file |-> FALSE]
    /\ m_store = [file |-> FALSE]
    /\ m_built = <<>>
    /\ m_exit = None

----------------------------------------------------------------------------
(* core/executor.py: Executor.execute *)

\* deferred_cleanup: FuncResult | None
NoCleanup == [present |-> FALSE, sql |-> <<>>]
Deferred(sql) == [present |-> TRUE, sql |-> sql]

Init ==
    /\ plan \in Plans
    /\ outputs \in OutputLists
    /\ dry_run \in BOOLEAN
    /\ stop_after \in StopAfterValues
    /\ pc = "validating"
    /\ idx = 1
    /\ out_idx = 1
    /\ \E r \in RunIds, j \in JobIds : ctx = NewContext(r, j)
    /\ select_registry = {}
    /\ deferred_cleanup = NoCleanup
    /\ cleanup_pos = 1
    /\ tables = {}
    /\ files = <<>>
    /\ trace = <<>>
    /\ error = NoError
    /\ ret = "pending"
    /\ CtxIdle
    /\ SqlIdle
    /\ DataIdle
    /\ MainIdle

AfterValidate_Continue(err) == "running"

\* PlanValidator.validate(plan, library) raising leaves execute
AfterValidate(err) == IF err.type # "None" THEN "raised" ELSE "running"

\* where the step loop goes after step i
AfterStep(i) == IF i >= Len(plan) THEN "exporting" ELSE "running"

ValidatePlan ==
    /\ pc = "validating"
    /\ LET err == validate(plan) IN
         /\ error' = err
         /\ pc' = IF AfterValidate(err) = "running" THEN AfterStep(0)
                  ELSE AfterValidate(err)
    /\ UNCHANGED <<aux, inputs, idx, out_idx, ctx, select_registry, deferred_cleanup,
                   cleanup_pos, tables, files, trace, ret>>

IsCleanupStep_Never(func_name) == FALSE

\* if step.func_name == "cleanup": deferred_cleanup = result
IsCleanupStep(func_name) == func_name = "cleanup"

StopHere_Never(stop, func_name) == FALSE

\* if stop_after and step.func_name == stop_after: return
StopHere(stop, func_name) == stop # None /\ func_name = stop

\* the row count sample: resolve_temp(step.save_as), any exception swallowed
CountEvents(c, step, i) ==
    IF step.save_as # "" /\ CanResolve(c, step.save_as)
    THEN <<Event("count", i, resolve_temp(c, step.save_as), TRUE)>>
    ELSE <<>>

EndOfStep_StopOnAnyFunc(step) ==
    IF stop_after # None
    THEN /\ pc' = "stopped"
         /\ ret' = None
         /\ idx' = idx
    ELSE /\ pc' = AfterStep(idx)
         /\ ret' = ret
         /\ idx' = idx + 1

\* the end of one iteration of the step loop
EndOfStep(step) ==
    IF StopHere(stop_after, step.func_name)
    THEN /\ pc' = "stopped"
         /\ ret' = None
         /\ idx' = idx
    ELSE /\ pc' = AfterStep(idx)
         /\ ret' = ret
         /\ idx' = idx + 1

Raise_Swallow(err) ==
    /\ pc' = AfterStep(idx)
    /\ error' = err
    /\ idx' = idx + 1
    /\ ret' = ret

\* an exception leaving the step loop: execute ends, nothing after it runs
Raise(err) ==
    /\ pc' = "raised"
    /\ error' = err
    /\ UNCHANGED <<idx, ret>>

\* one iteration of: for i, step in enumerate(plan.steps)
RunStep ==
    /\ pc = "running"
    /\ idx <= Len(plan)
    /\ LET step == plan[idx]
           built == <<Event("build", idx, NoTable, TRUE)>>
       IN
       IF ~has(step.func_name)
       THEN \* self._library.get raises KeyError
            /\ Raise(KeyError(idx - 1, "library.get"))
            /\ UNCHANGED <<ctx, select_registry, deferred_cleanup, tables, trace>>
       ELSE LET result == build_sql(ctx, step) IN
         IF result.raised
         THEN \* resolve_temp raises KeyError inside build_sql
              /\ Raise(KeyError(idx - 1, "resolve_temp"))
              /\ trace' = trace \o built
              /\ UNCHANGED <<ctx, select_registry, deferred_cleanup, tables>>
         ELSE
           /\ ctx' = result.ctx
           /\ IF IsCleanupStep(step.func_name)
              THEN /\ deferred_cleanup' = Deferred(result.sql)
                   /\ trace' = trace \o built
                   /\ error' = error
                   /\ EndOfStep(step)
                   /\ UNCHANGED <<select_registry, tables>>
              ELSE IF produces(step.func_name) = "select"
              THEN /\ select_registry' =
                        register(select_registry, step.save_as, result.sql[1])
                   /\ trace' = trace \o built
                                \o <<Event("register", idx, NoTable, TRUE)>>
                   /\ error' = error
                   /\ EndOfStep(step)
                   /\ UNCHANGED <<deferred_cleanup, tables>>
              ELSE \E ok \in BOOLEAN :
                   IF ok
                   THEN /\ tables' = ApplyAll(result.sql, tables)
                        /\ trace' = trace \o built \o StmtEvents(result.sql, idx)
                                     \o <<Event("commit", idx, NoTable, TRUE)>>
                                     \o CountEvents(result.ctx, step, idx)
                        /\ error' = error
                        /\ EndOfStep(step)
                        /\ UNCHANGED <<select_registry, deferred_cleanup>>
                   ELSE \* SqliteIO.execute raises SqlError
                        /\ Raise(SqlError(idx - 1, "execute"))
                        /\ trace' = trace \o built
                             \o <<Event(result.sql[1].kind, idx,
                                        result.sql[1].table, FALSE)>>
                        /\ UNCHANGED <<select_registry, deferred_cleanup, tables>>
    /\ UNCHANGED <<aux, inputs, out_idx, cleanup_pos, files>>

ExportSkipped_Never(dry) == FALSE

\* if dry_run: skip the export loop
ExportSkipped(dry) == dry

SkipExport ==
    /\ pc = "exporting"
    /\ ExportSkipped(dry_run)
    /\ pc' = "cleaning"
    /\ UNCHANGED <<aux, inputs, idx, out_idx, ctx, select_registry, deferred_cleanup,
                   cleanup_pos, tables, files, trace, error, ret>>

\* one iteration of: for out_spec in outputs
ExportOne ==
    /\ pc = "exporting"
    /\ ~ExportSkipped(dry_run)
    /\ out_idx <= Len(outputs)
    /\ LET ref == outputs[out_idx] IN
       IF ~RegistryHas(select_registry, ref)
       THEN \* SelectRegistry.get raises KeyError
            /\ pc' = "raised"
            /\ error' = KeyError(out_idx - 1, "select_registry.get")
            /\ UNCHANGED <<out_idx, files, trace>>
       ELSE LET sel == RegistryGet(select_registry, ref)
                there == TableExists(sel.sql.from, tables)
            IN \E ok \in BOOLEAN :
                 /\ ok => there
                 \* export_select opens the file, writes the header, then queries
                 /\ files' = Append(files, ref)
                 /\ trace' = Append(trace, Event("export", out_idx, sel.sql.from, ok))
                 /\ IF ok
                    THEN /\ out_idx' = out_idx + 1
                         /\ pc' = IF out_idx >= Len(outputs) THEN "cleaning"
                                  ELSE "exporting"
                         /\ error' = error
                    ELSE /\ out_idx' = out_idx
                         /\ pc' = "raised"
                         /\ error' = SqlError(out_idx - 1, "export")
    /\ UNCHANGED <<aux, inputs, idx, ctx, select_registry, deferred_cleanup,
                   cleanup_pos, tables, ret>>

AfterCleanupStmt_Abort(ok) == IF ok THEN "cleaning" ELSE "raised"

\* try: execute(stmt) except Exception: pass
AfterCleanupStmt(ok) == "cleaning"

\* one iteration of: for stmt in deferred_cleanup.sql.split(";")
CleanupStmt ==
    /\ pc = "cleaning"
    /\ deferred_cleanup.present
    /\ cleanup_pos <= Len(deferred_cleanup.sql)
    /\ LET stmt == deferred_cleanup.sql[cleanup_pos] IN
       \E ok \in BOOLEAN :
         /\ tables' = IF ok THEN ApplyStmt(stmt, tables) ELSE tables
         /\ trace' = Append(trace, Event(stmt.kind, 0, stmt.table, ok))
         /\ pc' = AfterCleanupStmt(ok)
         /\ error' = IF AfterCleanupStmt(ok) = "raised"
                     THEN SqlError(cleanup_pos - 1, "cleanup") ELSE error
    /\ cleanup_pos' = cleanup_pos + 1
    /\ UNCHANGED <<aux, inputs, idx, out_idx, ctx, select_registry, deferred_cleanup,
                   files, ret>>

\* self._progress.finish(...); the implicit return
Finish ==
    /\ pc = "cleaning"
    /\ ~deferred_cleanup.present \/ cleanup_pos > Len(deferred_cleanup.sql)
    /\ pc' = "done"
    /\ ret' = None
    /\ UNCHANGED <<aux, inputs, idx, out_idx, ctx, select_registry, deferred_cleanup,
                   cleanup_pos, tables, files, trace, error>>

Next ==
    \/ ValidatePlan
    \/ RunStep
    \/ SkipExport
    \/ ExportOne
    \/ CleanupStmt
    \/ Finish

Spec == Init /\ [][Next]_vars

----------------------------------------------------------------------------
(* funcs/base.py: two ExecutionContexts allocating against one store.      *)
(* Executor.execute builds each context from run_id = uuid4().hex[:8] and  *)
(* plan.job_id; the two run ids are independent random draws.              *)

MaxAllocs == 3

\* values uuid.uuid4().hex[:8] can take
UuidHex8 == {"0a1b2c3d", "9f8e7d6c"}
\* plan.job_id of the two calls: the same job run again, or another job
PlanJobIds == {"jobA", "jobB"}
LogicalNames == {"scope", "uq", "isld_pure"}

\* no Executor.execute call is modelled step by step
ExecIdle ==
    /\ plan = <<>>
    /\ outputs = <<>>
    /\ dry_run = TRUE
    /\ stop_after = None
    /\ pc = "idle"
    /\ idx = 1
    /\ out_idx = 1
    /\ ctx = NewContext("", "")
    /\ select_registry = {}
    /\ deferred_cleanup = NoCleanup
    /\ cleanup_pos = 1
    /\ tables = {}
    /\ files = <<>>
    /\ trace = <<>>
    /\ error = NoError
    /\ ret = "pending"

\* ctx = ExecutionContext(run_id=run_id, job_id=plan.job_id), twice
InitCtx ==
    /\ ExecIdle
    /\ MainIdle
    /\ \E ra \in UuidHex8, rb \in UuidHex8, ja \in PlanJobIds, jb \in PlanJobIds :
          /\ ctx_a = NewContext(ra, ja)
          /\ ctx_b = NewContext(rb, jb)
    /\ allocs = <<>>
    /\ ctx_raised = None
    /\ SqlIdle
    /\ DataIdle

Allocation(who, logical_name, physical) ==
    [who |-> who, logical |-> logical_name, physical |-> physical]

\* ctx.allocate_temp(logical_name) in the first call
AllocateA ==
    /\ Len(allocs) < MaxAllocs
    /\ \E name \in LogicalNames :
          LET a == allocate_temp(ctx_a, name) IN
            /\ ctx_a' = a.ctx
            /\ allocs' = Append(allocs, Allocation("a", name, a.physical))
    /\ ctx_raised' = None
    /\ UNCHANGED <<main_vars, exec_vars, sql_vars, data_vars, ctx_b>>

\* ctx.allocate_temp(logical_name) in the second call
AllocateB ==
    /\ Len(allocs) < MaxAllocs
    /\ \E name \in LogicalNames :
          LET a == allocate_temp(ctx_b, name) IN
            /\ ctx_b' = a.ctx
            /\ allocs' = Append(allocs, Allocation("b", name, a.physical))
    /\ ctx_raised' = None
    /\ UNCHANGED <<main_vars, exec_vars, sql_vars, data_vars, ctx_a>>

UNIT_KEY_MAP ==
    [publ |-> "PUBL_NUMBER", app |-> "PATT_APPLICATION_NUMBER",
     family |-> "DIPG_PATF_ID", dipg |-> "DIPG_ID"]

\* units a UniqueSpec can carry; 'bogus' is in neither branch of build_sql
UniqueUnits == {"publ", "none", "bogus"}

\* sources a unique step can name; 'enriched' is never allocated here
UniqueSources == LogicalNames \cup {"enriched"}

\* what a build_sql call leaves: the exception (None when it returned), the
\* context, and the physical name allocate_temp returned (NoTable if none)
BuildOutcome(exc, c, physical) == [exc |-> exc, ctx |-> c, physical |-> physical]

\* UniqueFunc.build_sql: resolve_temp(source), allocate_temp("uq"), then the
\* unit: 'none' copies, a unit of UNIT_KEY_MAP ranks, any other raises
unique_build_sql(c, source, unit) ==
    IF ~CanResolve(c, source) THEN BuildOutcome("KeyError", c, NoTable)
    ELSE LET a == allocate_temp(c, "uq") IN
      IF unit = "none" THEN BuildOutcome(None, a.ctx, a.physical)
      ELSE IF unit \notin DOMAIN UNIT_KEY_MAP
        THEN BuildOutcome("ValueError", a.ctx, a.physical)
      ELSE BuildOutcome(None, a.ctx, a.physical)

\* UniqueFunc().build_sql(ctx, {"unique_spec": spec, "source": source}) in
\* the first call
BuildUniqueA ==
    /\ Len(allocs) < MaxAllocs
    /\ \E source \in UniqueSources, unit \in UniqueUnits :
          LET o == unique_build_sql(ctx_a, source, unit) IN
            /\ ctx_a' = o.ctx
            /\ ctx_raised' = o.exc
            /\ allocs' = IF o.physical = NoTable THEN allocs
                         ELSE Append(allocs, Allocation("a", "uq", o.physical))
    /\ UNCHANGED <<main_vars, exec_vars, sql_vars, data_vars, ctx_b>>

NextCtx ==
    \/ AllocateA
    \/ AllocateB
    \/ BuildUniqueA

SpecCtx == InitCtx /\ [][NextCtx]_vars

----------------------------------------------------------------------------
(* funcs/f01_scope.py, funcs/f10_selects.py: the SQL text and the bound     *)
(* parameters a Func returns. Text is a sequence of string tokens; a value  *)
(* written into the text is a token of its own.                             *)

\* ScopeSpec; date bounds are None when not set
ScopeSpec(companies, countries, country_prefixes, date_from, date_to, country_mode) ==
    [companies |-> companies, countries |-> countries,
     country_prefixes |-> country_prefixes, date_from |-> date_from,
     date_to |-> date_to, country_mode |-> country_mode]

\* one entry of `conditions` with the parameters appended for it
Cond(kind, vals) == [kind |-> kind, vals |-> vals]

\* a bound parameter: the pattern built around the configured value
Param(pat, val) == [pat |-> pat, val |-> val]

Patterns(pat, xs) == [n \in 1..Len(xs) |-> Param(pat, xs[n])]

\* the conditions of ScopeFunc.build_sql in source order; country_mode is
\* not read
scope_conditions(spec) ==
    (IF spec.companies # <<>>
       THEN <<Cond("company_like", Patterns("%v%", spec.companies))>> ELSE <<>>)
    \o (IF spec.countries # <<>>
       THEN <<Cond("country_in", Patterns("v", spec.countries))>> ELSE <<>>)
    \o (IF spec.country_prefixes # <<>>
       THEN <<Cond("country_like", Patterns("v %", spec.country_prefixes))>>
       ELSE <<>>)
    \o (IF spec.date_from # None
       THEN <<Cond("date_ge", <<Param("v", spec.date_from)>>)>> ELSE <<>>)
    \o (IF spec.date_to # None
       THEN <<Cond("date_le", <<Param("v", spec.date_to)>>)>> ELSE <<>>)

\* sep.join(tok for _ in range(n))
Repeat(tok, sep, n) == [i \in 1..(2 * n - 1) |-> IF i % 2 = 1 THEN tok ELSE sep]

cond_text(c) ==
    IF c.kind = "company_like"
    THEN <<"(">> \o Repeat("UPPER(COMP_LEGAL_NAME) LIKE UPPER(?)", "OR", Len(c.vals))
         \o <<")">>
    ELSE IF c.kind = "country_in"
    THEN <<"Country_Of_Registration IN (">> \o Repeat("?", ",", Len(c.vals))
         \o <<")">>
    ELSE IF c.kind = "country_like"
    THEN <<"(">> \o Repeat("Country_Of_Registration LIKE ?", "OR", Len(c.vals))
         \o <<")">>
    ELSE IF c.kind = "date_ge" THEN <<"PBPA_APP_DATE >= ?">>
    ELSE <<"PBPA_APP_DATE <= ?">>

RECURSIVE JoinAnd(_)
JoinAnd(conds) ==
    IF Len(conds) = 1 THEN cond_text(conds[1])
    ELSE cond_text(conds[1]) \o <<"AND">> \o JoinAnd(Tail(conds))

\* where = " AND ".join(conditions) if conditions else "1=1"
where_text(conds) == IF conds = <<>> THEN <<"1=1">> ELSE JoinAnd(conds)

RECURSIVE ParamsOf(_)
ParamsOf(conds) ==
    IF conds = <<>> THEN <<>> ELSE conds[1].vals \o ParamsOf(Tail(conds))

SqlResult(sql, params) == [sql |-> sql, params |-> params]

\* ScopeFunc.build_sql: the statement and its parameter list
scope_sql(spec, src, out) ==
    SqlResult(<<"CREATE TEMP TABLE", out, "AS SELECT * FROM", src, "WHERE">>
                \o where_text(scope_conditions(spec)),
              ParamsOf(scope_conditions(spec)))

DefaultCountries == <<"JP", "US", "CN", "EP", "KR">>

\* cs = countries or _DEFAULT_COUNTRIES
CountriesOrDefault(countries) ==
    IF countries = <<>> THEN DefaultCountries ELSE countries

RECURSIVE WhenParts(_)
WhenParts(cs) ==
    IF cs = <<>> THEN <<>>
    ELSE <<"WHEN Country_Of_Registration LIKE '", cs[1], " %' THEN '", cs[1], "'">>
         \o WhenParts(Tail(cs))

country_case(countries) ==
    <<"CASE">> \o WhenParts(CountriesOrDefault(countries)) \o <<"ELSE 'OTHER' END">>

RECURSIVE QuotedList(_)
QuotedList(cs) ==
    IF cs = <<>> THEN <<>>
    ELSE IF Len(cs) = 1 THEN <<"'", cs[1], "'">>
    ELSE <<"'", cs[1], "'", ",">> \o QuotedList(Tail(cs))

country_in_list(countries) == QuotedList(CountriesOrDefault(countries))

bucket_expr(period) ==
    IF period = "year" THEN "SUBSTR(PBPA_APP_DATE, 1, 4) || '-01-01'"
    ELSE "SUBSTR(PBPA_APP_DATE, 1, 7) || '-01'"

\* f"{top_k}" of the integers the templates pass
IntText == (5 :> "5") @@ (10 :> "10") @@ (20 :> "20")

\* the arguments of a sel_* step
SelArgs(countries, period, include_all, top_k, unit_col, unit_name) ==
    [countries |-> countries, period |-> period, include_all |-> include_all,
     top_k |-> top_k, unit_col |-> unit_col, unit_name |-> unit_name]

\* the common head of the sel_* queries: WITH base AS (SELECT {case} ...)
sel_base(a, src, cols) ==
    <<"WITH base AS ( SELECT">> \o country_case(a.countries)
      \o <<"AS __ctry,">> \o cols \o <<"FROM", src, ")">>

all_branch(a, text) == IF a.include_all THEN <<"UNION ALL", text>> ELSE <<>>

sel_filing_count_ts_sql(a, src) ==
    SqlResult(
      sel_base(a, src, <<"COMP_LEGAL_NAME AS company,", bucket_expr(a.period),
                         "AS bucket, PATT_APPLICATION_NUMBER">>)
        \o <<"SELECT ... FROM base WHERE __ctry IN (">>
        \o country_in_list(a.countries)
        \o <<") GROUP BY __ctry, company, bucket">>
        \o all_branch(a, "SELECT 'ALL' ... GROUP BY company, bucket")
        \o <<"ORDER BY country, company, bucket;">>,
      <<>>)

sel_lag_stats_sql(a, src) ==
    SqlResult(
      sel_base(a, src, <<"COMP_LEGAL_NAME AS company,", bucket_expr(a.period),
                         "AS bucket, lag_days">>)
        \o <<"SELECT ... FROM base WHERE __ctry IN (">>
        \o country_in_list(a.countries)
        \o <<")">>
        \o all_branch(a, "SELECT 'ALL' ... FROM base")
        \o <<"... ORDER BY country, company, bucket;">>,
      <<>>)

sel_top_specs_ts_sql(a, src) ==
    SqlResult(
      sel_base(a, src, <<"TGPP_NUMBER AS spec,", bucket_expr(a.period),
                         "AS bucket, PATT_APPLICATION_NUMBER">>)
        \o <<"SELECT ... FROM base WHERE __ctry IN (">>
        \o country_in_list(a.countries)
        \o <<")">>
        \o all_branch(a, "SELECT 'ALL' ... FROM base")
        \o <<"... ROW_NUMBER() OVER (PARTITION BY country, bucket ORDER BY cnt DESC)",
             "WHERE rank <=", IntText[a.top_k],
             "ORDER BY country, bucket, rank;">>,
      <<>>)

sel_company_rank_sql(a, src) ==
    SqlResult(
      sel_base(a, src, <<"COMP_LEGAL_NAME AS company,", "[", a.unit_col, "]">>)
        \o <<"WHERE [", a.unit_col, "] IS NOT NULL",
             "SELECT ... FROM base WHERE __ctry IN (">>
        \o country_in_list(a.countries)
        \o <<")">>
        \o all_branch(a, "SELECT 'ALL', company ... FROM base")
        \o <<"COUNT(DISTINCT [", a.unit_col, "]) AS cnt",
             "ROW_NUMBER() OVER (PARTITION BY country ORDER BY cnt DESC)",
             "SELECT country, '", a.unit_name, "' AS unique_unit, company, cnt, rank",
             "ORDER BY country, rank;">>,
      <<>>)

sel_spec_company_heat_sql(a, src) ==
    SqlResult(
      sel_base(a, src, <<"COMP_LEGAL_NAME AS company, TGPP_NUMBER AS spec">>)
        \o <<"... ORDER BY cnt DESC LIMIT", IntText[a.top_k],
             "... WHERE __ctry IN (">>
        \o country_in_list(a.countries)
        \o <<")">>
        \o all_branch(a, "SELECT 'ALL' ... FROM base")
        \o <<"ORDER BY country, spec, company;">>,
      <<>>)

\* Argument maps the build is examined on
SqlScopeSpecs ==
    {ScopeSpec(co, cn, cp, df, None, "ALL") :
        co \in {<<>>, <<"ACME">>, <<"Nokia">>},
        cn \in {<<>>, <<"JP JAPAN">>},
        cp \in {<<>>, <<"JP">>, <<"US">>},
        df \in {None, "2020-01-01", "2021-01-01"}}

AnalysisCountries == {<<>>, <<"JP">>, <<"US">>, <<"JP", "US">>}

SelArgsOf(func_name) ==
    IF func_name \in {"sel_filing_count_ts", "sel_lag_stats"}
    THEN {SelArgs(cs, p, ia, 10, "PATT_APPLICATION_NUMBER", "app") :
            cs \in AnalysisCountries, p \in {"month", "year"}, ia \in BOOLEAN}
    ELSE IF func_name = "sel_top_specs_ts"
    THEN {SelArgs(cs, p, ia, k, "PATT_APPLICATION_NUMBER", "app") :
            cs \in AnalysisCountries, p \in {"month", "year"}, ia \in BOOLEAN,
            k \in {5, 10}}
    ELSE IF func_name = "sel_company_rank"
    THEN {SelArgs(cs, "month", ia, 10, uc, un) :
            cs \in AnalysisCountries, ia \in BOOLEAN,
            uc \in {"PATT_APPLICATION_NUMBER", "DIPG_PATF_ID"},
            un \in {"app", "family"}}
    ELSE {SelArgs(cs, "month", ia, k, "PATT_APPLICATION_NUMBER", "app") :
            cs \in AnalysisCountries, ia \in BOOLEAN, k \in {10, 20}}

ArgsOf(func_name) ==
    IF func_name = "scope" THEN SqlScopeSpecs ELSE SelArgsOf(func_name)

\* the Funcs that receive configured values
ValueFuncs == {"scope"} \cup SelectFuncs

\* func.build_sql(ctx, args).sql and .params for a fixed source table
sql_of(func_name, a) ==
    IF func_name = "scope"
    THEN scope_sql(a, "isld_pure", "tmp__0a1b2c3d__jobA__01__scope")
    ELSE IF func_name = "sel_filing_count_ts" THEN sel_filing_count_ts_sql(a, "isld_pure")
    ELSE IF func_name = "sel_lag_stats" THEN sel_lag_stats_sql(a, "isld_pure")
    ELSE IF func_name = "sel_top_specs_ts" THEN sel_top_specs_ts_sql(a, "isld_pure")
    ELSE IF func_name = "sel_company_rank" THEN sel_company_rank_sql(a, "isld_pure")
    ELSE sel_spec_company_heat_sql(a, "isld_pure")

InitSql ==
    /\ ExecIdle
    /\ MainIdle
    /\ CtxIdle
    /\ DataIdle
    /\ q_func \in ValueFuncs
    /\ q_args \in ArgsOf(q_func) \X ArgsOf(q_func)
    /\ q_out = <<>>

\* build_sql is called once with each of the two argument maps
BuildBoth ==
    /\ q_out = <<>>
    /\ q_out' = <<sql_of(q_func, q_args[1]), sql_of(q_func, q_args[2])>>
    /\ UNCHANGED <<main_vars, exec_vars, ctx_vars, data_vars, q_func, q_args>>

NextSql == BuildBoth

SpecSql == InitSql /\ [][NextSql]_vars

----------------------------------------------------------------------------
(* funcs/f01_scope.py, funcs/f02_unique.py: what the built statement does   *)
(* to the rows of its source table. A row is a function from column names   *)
(* to values; __src_rownum is the ingestion row counter, distinct per row.  *)

MaxRows == 3

\* SQL NULL
Null == "NULL"

Columns == {"__src_rownum", "PUBL_NUMBER", "Country_Of_Registration",
            "PBPA_APP_DATE", "COMP_LEGAL_NAME"}

Row(n, publ, country, date, company) ==
    [c \in Columns |->
       IF c = "__src_rownum" THEN n
       ELSE IF c = "PUBL_NUMBER" THEN publ
       ELSE IF c = "Country_Of_Registration" THEN country
       ELSE IF c = "PBPA_APP_DATE" THEN date
       ELSE company]

\* ISO dates compare as strings; their order
DateRank == ("2019-06-01" :> 1) @@ ("2020-01-01" :> 2) @@ ("2021-01-01" :> 3)

\* the text before the first blank of Country_Of_Registration
CountryCode == ("JP JAPAN" :> "JP") @@ ("US USA" :> "US")

\* UPPER(x)
Upper == ("ACME" :> "ACME") @@ ("acme" :> "ACME") @@ ("Nokia" :> "NOKIA")

RowValues(n, publs, countries, dates, companies) ==
    {Row(n, p, c, d, co) : p \in publs, c \in countries, d \in dates,
                           co \in companies}

\* the tables of exactly k rows, numbered 1..k
RECURSIVE TablesOfSize(_, _, _, _, _)
TablesOfSize(k, publs, countries, dates, companies) ==
    IF k = 0 THEN {{}}
    ELSE {t \cup {r} :
            t \in TablesOfSize(k - 1, publs, countries, dates, companies),
            r \in RowValues(k, publs, countries, dates, companies)}

\* the tables of at most MaxRows rows
Tables(publs, countries, dates, companies) ==
    UNION {TablesOfSize(k, publs, countries, dates, companies) : k \in 0..MaxRows}

\* one condition of the WHERE clause on one row
EvalCond(c, r) ==
    IF c.kind = "true" THEN TRUE
    ELSE IF c.kind = "false" THEN FALSE
    ELSE IF c.kind = "company_like"
    THEN /\ r["COMP_LEGAL_NAME"] # Null
         /\ \E n \in 1..Len(c.vals) :
               Upper[r["COMP_LEGAL_NAME"]] = Upper[c.vals[n].val]
    ELSE IF c.kind = "country_in"
    THEN \E n \in 1..Len(c.vals) : r["Country_Of_Registration"] = c.vals[n].val
    ELSE IF c.kind = "country_like"
    THEN /\ r["Country_Of_Registration"] # Null
         /\ \E n \in 1..Len(c.vals) :
               CountryCode[r["Country_Of_Registration"]] = c.vals[n].val
    ELSE IF c.kind = "date_ge"
    THEN /\ r["PBPA_APP_DATE"] # Null
         /\ DateRank[r["PBPA_APP_DATE"]] >= DateRank[c.vals[1].val]
    ELSE /\ r["PBPA_APP_DATE"] # Null
         /\ DateRank[r["PBPA_APP_DATE"]] <= DateRank[c.vals[1].val]

ScopeWhere_ExcludeAll(conds) ==
    IF conds = <<>> THEN <<Cond("false", <<>>)>> ELSE conds

\* where = " AND ".join(conditions) if conditions else "1=1"
ScopeWhere(conds) ==
    IF conds = <<>> THEN <<Cond("true", <<>>)>> ELSE conds

\* CREATE TEMP TABLE [out] AS SELECT * FROM [src] WHERE {where}
scope_rows(spec, rows) ==
    LET w == ScopeWhere(scope_conditions(spec))
    IN {r \in rows : \A n \in 1..Len(w) : EvalCond(w[n], r)}

OrderByItem(col, dir) == [col |-> col, dir |-> dir]

UniqueSpec(unit, order_by, partition_extra) ==
    [unit |-> unit, keep |-> [order_by |-> order_by],
     partition_extra |-> partition_extra]

key_col(spec) == UNIT_KEY_MAP[spec.unit]

partition_cols_KeyOnly(spec) == <<key_col(spec)>>

\* partition_cols = [key_col] + spec.partition_extra
partition_cols(spec) == <<key_col(spec)>> \o spec.partition_extra

OrderCols(order_by) == {order_by[n].col : n \in 1..Len(order_by)}

order_parts_NoTieBreak(spec) == spec.keep.order_by

\* the caller's keys, then __src_rownum ASC unless a caller's key names it
order_parts(spec) ==
    spec.keep.order_by
      \o (IF "__src_rownum" \notin OrderCols(spec.keep.order_by)
          THEN <<OrderByItem("__src_rownum", "ASC")>> ELSE <<>>)

\* x sorts strictly before y in ascending order; NULL sorts first
SqlLess(col, x, y) ==
    IF col = "__src_rownum" THEN x < y
    ELSE /\ x # y
         /\ \/ x = Null
            \/ y # Null /\ DateRank[x] < DateRank[y]

KeyLess(part, r, s) ==
    IF part.dir \in {"ASC", "asc"}
    THEN SqlLess(part.col, r[part.col], s[part.col])
    ELSE SqlLess(part.col, s[part.col], r[part.col])

\* r sorts strictly before s under ORDER BY parts
Before(r, s, parts) ==
    \E n \in 1..Len(parts) :
       /\ \A m \in 1..(n - 1) : r[parts[m].col] = s[parts[m].col]
       /\ KeyLess(parts[n], r, s)

SamePartition(r, s, cols) == \A n \in 1..Len(cols) : r[cols[n]] = s[cols[n]]

\* WHERE {key_col} IS NOT NULL
KeyFilter(rows, col) == {r \in rows : r[col] # Null}

\* the row with the added column __rn = 1
Ranked(r) == r @@ ("__rn" :> 1)

\* the results ROW_NUMBER() ... WHERE __rn = 1 can give: one row per
\* partition, and no row of its partition sorts before it
unique_outputs(spec, rows) ==
    IF spec.unit = "none" THEN {rows}
    ELSE LET kept == KeyFilter(rows, key_col(spec))
             cols == partition_cols(spec)
             parts == order_parts(spec)
         IN {{Ranked(r) : r \in S} :
              S \in {T \in SUBSET kept :
                       /\ \A r \in kept :
                            Cardinality({s \in T : SamePartition(r, s, cols)}) = 1
                       /\ \A s \in T : \A t \in kept :
                            SamePartition(s, t, cols) => ~Before(t, s, parts)}}

\* keep.order_by lists that config/validate.py accepts
OrderBys ==
    { <<>>,
      <<OrderByItem("__src_rownum", "ASC")>>,
      <<OrderByItem("__src_rownum", "DESC")>>,
      <<OrderByItem("PBPA_APP_DATE", "ASC")>>,
      <<OrderByItem("PBPA_APP_DATE", "DESC")>>,
      <<OrderByItem("__src_rownum", "ASC"), OrderByItem("PBPA_APP_DATE", "ASC")>> }

UniqueSpecs ==
    {UniqueSpec("publ", ob, pe) :
        ob \in OrderBys, pe \in {<<>>, <<"Country_Of_Registration">>}}
      \cup {UniqueSpec("none", <<OrderByItem("__src_rownum", "ASC")>>, <<>>)}

UniqueTables ==
    Tables({Null, "P1", "P2"}, {"JP JAPAN", "US USA"}, {Null, "2020-01-01"},
           {"ACME"})

DataScopeSpecs ==
    {ScopeSpec(co, cn, cp, df, None, cm) :
        co \in {<<>>, <<"acme">>},
        cn \in {<<>>, <<"JP JAPAN">>},
        cp \in {<<>>, <<"JP">>},
        df \in {None, "2020-01-01"},
        cm \in {"ALL", "FILTER"}}

ScopeTables ==
    Tables({"P1"}, {"JP JAPAN", "US USA"}, {"2019-06-01", "2021-01-01"},
           {"ACME", "Nokia"})

\* funcs/f03_enrich.py: decl_date and lag_days. A numeric SQL value is a
\* record: NULL, or an integer number of days.
SqlNull == [null |-> TRUE, v |-> 0]
SqlInt(v) == [null |-> FALSE, v |-> v]

EnrichColumns == {"__src_rownum", "IPRD_SIGNATURE_DATE", "Reflected_Date",
                  "PBPA_APP_DATE"}

EnrichRow(n, sig, ref, app) ==
    [c \in EnrichColumns |->
       IF c = "__src_rownum" THEN n
       ELSE IF c = "IPRD_SIGNATURE_DATE" THEN sig
       ELSE IF c = "Reflected_Date" THEN ref
       ELSE app]

\* JULIANDAY of the dates used, as days relative to 2020-01-01
DayNumber ==
    ("1900-01-01" :> -43829) @@ ("2019-12-27" :> -5) @@ ("2020-01-01" :> 0)
      @@ ("2020-01-06" :> 5)

\* JULIANDAY(x): NULL for NULL and for text that is not a date
JULIANDAY(x) ==
    IF x = Null \/ x \notin DOMAIN DayNumber THEN SqlNull ELSE SqlInt(DayNumber[x])

\* NULLIF(x, '1900-01-01')
NullIfSentinel(x) == IF x = "1900-01-01" THEN Null ELSE x

\* COALESCE(x, y)
COALESCE(x, y) == IF x # Null THEN x ELSE y

PolicySpec(decl_date_policy, negative_lag_policy) ==
    [decl_date_policy |-> decl_date_policy,
     negative_lag_policy |-> negative_lag_policy]

decl_expr(policies, r) ==
    IF policies.decl_date_policy = "reflected_first"
    THEN COALESCE(NullIfSentinel(r["Reflected_Date"]),
                  NullIfSentinel(r["IPRD_SIGNATURE_DATE"]))
    ELSE COALESCE(NullIfSentinel(r["IPRD_SIGNATURE_DATE"]),
                  NullIfSentinel(r["Reflected_Date"]))

\* x - y on numeric SQL values
SqlMinus(x, y) == IF x.null \/ y.null THEN SqlNull ELSE SqlInt(x.v - y.v)

lag_raw(policies, r) ==
    SqlMinus(JULIANDAY(decl_expr(policies, r)), JULIANDAY(r["PBPA_APP_DATE"]))

sql_max0_NullIsZero(x) == IF x.null \/ x.v < 0 THEN SqlInt(0) ELSE x

\* the scalar MAX(0, x): NULL when x is NULL
sql_max0(x) == IF x.null THEN SqlNull ELSE IF x.v < 0 THEN SqlInt(0) ELSE x

\* CASE WHEN (x) < 0 THEN NULL ELSE (x) END
sql_null_if_negative(x) == IF ~x.null /\ x.v < 0 THEN SqlNull ELSE x

lag_expr(policies, r) ==
    IF policies.negative_lag_policy = "zero" THEN sql_max0(lag_raw(policies, r))
    ELSE IF policies.negative_lag_policy = "null"
    THEN sql_null_if_negative(lag_raw(policies, r))
    ELSE lag_raw(policies, r)

\* SELECT *, {decl_expr} AS decl_date, {lag_expr} AS lag_days FROM [source]
enrich_rows(policies, rows) ==
    {r @@ ("decl_date" :> decl_expr(policies, r))
       @@ ("lag_days" :> lag_expr(policies, r)) : r \in rows}

PolicySpecs ==
    {PolicySpec(d, n) : d \in {"signature_first", "reflected_first"},
                        n \in {"keep", "zero", "null", "drop"}}

EnrichRowValues(n) ==
    {EnrichRow(n, sig, ref, app) :
        sig \in {Null, "1900-01-01", "2019-12-27", "2020-01-06"},
        ref \in {Null, "2020-01-01"},
        app \in {Null, "2020-01-01", "n/a"}}

\* source tables of one row and of two rows
EnrichTables ==
    {{r} : r \in EnrichRowValues(1)}
      \cup {{r, t} : r \in EnrichRowValues(1), t \in EnrichRowValues(2)}

\* ORDER BY country: the order of the country labels as strings
CountryOrd == ("ALL" :> 1) @@ ("JP" :> 2) @@ ("OTHER" :> 3) @@ ("US" :> 4)

InList(x, xs) == \E n \in 1..Len(xs) : xs[n] = x

\* CASE WHEN Country_Of_Registration LIKE '<c> %' THEN '<c>' ... ELSE 'OTHER'
ctry_of(r, countries) ==
    IF InList(CountryCode[r["Country_Of_Registration"]], CountriesOrDefault(countries))
    THEN CountryCode[r["Country_Of_Registration"]] ELSE "OTHER"

\* the CTEs base and expanded of SelCompanyRank, as (country, company, unit)
rank_expanded(a, rows) ==
    LET base == {r \in rows : r[a.unit_col] # Null}
        one(c, r) == [country |-> c, company |-> r["COMP_LEGAL_NAME"],
                      unit |-> r[a.unit_col]]
    IN {one(ctry_of(r, a.countries), r) :
          r \in {b \in base : InList(ctry_of(b, a.countries),
                                      CountriesOrDefault(a.countries))}}
       \cup (IF a.include_all THEN {one("ALL", r) : r \in base} ELSE {})

\* counted: COUNT(DISTINCT unit) GROUP BY country, company
rank_counted(a, rows) ==
    LET ex == rank_expanded(a, rows)
    IN {[country |-> g[1], company |-> g[2],
         cnt |-> Cardinality({e.unit : e \in {x \in ex : x.country = g[1]
                                                       /\ x.company = g[2]}})] :
          g \in {<<e.country, e.company>> : e \in ex}}

Perms(S) ==
    {f \in [1..Cardinality(S) -> S] :
        \A i, j \in 1..Cardinality(S) : i # j => f[i] # f[j]}

\* ROW_NUMBER() OVER (PARTITION BY country ORDER BY cnt DESC): g may be
\* numbered before h; groups of equal cnt may be numbered either way
rank_order(g, h) == g.cnt >= h.cnt

\* the files the export of sel_company_rank can write: the groups ordered
\* by country and, inside a country, by a rank that respects rank_order
company_rank_files(a, rows) ==
    {[n \in 1..Len(f) |->
        [country |-> f[n].country, unique_unit |-> a.unit_name,
         company |-> f[n].company, cnt |-> f[n].cnt,
         rank |-> Cardinality({m \in 1..n : f[m].country = f[n].country})]] :
       f \in {p \in Perms(rank_counted(a, rows)) :
                \A i, j \in 1..Len(p) :
                   i < j =>
                     \/ CountryOrd[p[i].country] < CountryOrd[p[j].country]
                     \/ /\ p[i].country = p[j].country
                        /\ rank_order(p[i], p[j])}}

\* args RankCompanyCountsBuilder passes for unique.unit = 'publ'
RankArgs ==
    {SelArgs(<<"JP", "US">>, "month", FALSE, 10, "PUBL_NUMBER", "publ")}

RankTables ==
    Tables({"P1", "P2"}, {"JP JAPAN", "US USA"}, {"2020-01-01"}, {"ACME", "Nokia"})

InitData ==
    /\ ExecIdle
    /\ MainIdle
    /\ CtxIdle
    /\ SqlIdle
    /\ \/ d_op = "unique" /\ d_spec \in UniqueSpecs /\ d_rows \in UniqueTables
       \/ d_op = "scope" /\ d_spec \in DataScopeSpecs /\ d_rows \in ScopeTables
       \/ d_op = "rank" /\ d_spec \in RankArgs /\ d_rows \in RankTables
       \/ d_op = "enrich" /\ d_spec \in PolicySpecs /\ d_rows \in EnrichTables
    /\ d_out = <<>>

\* the scope statement is executed on the source rows
ApplyScope ==
    /\ d_op = "scope"
    /\ d_out = <<>>
    /\ d_out' = <<scope_rows(d_spec, d_rows)>>
    /\ UNCHANGED <<main_vars, exec_vars, ctx_vars, sql_vars, d_op, d_spec, d_rows>>

\* the unique statement is executed on the source rows
ApplyUnique ==
    /\ d_op = "unique"
    /\ d_out = <<>>
    /\ \E out \in unique_outputs(d_spec, d_rows) : d_out' = <<out>>
    /\ UNCHANGED <<main_vars, exec_vars, ctx_vars, sql_vars, d_op, d_spec, d_rows>>

\* the same unique statement is executed again on the unchanged source
RerunUnique ==
    /\ d_op = "unique"
    /\ Len(d_out) = 1
    /\ \E out \in unique_outputs(d_spec, d_rows) : d_out' = Append(d_out, out)
    /\ UNCHANGED <<main_vars, exec_vars, ctx_vars, sql_vars, d_op, d_spec, d_rows>>

\* the registered sel_company_rank query is exported to a file
ExportRank ==
    /\ d_op = "rank"
    /\ d_out = <<>>
    /\ \E file \in company_rank_files(d_spec, d_rows) : d_out' = <<file>>
    /\ UNCHANGED <<main_vars, exec_vars, ctx_vars, sql_vars, d_op, d_spec, d_rows>>

\* the same plan is executed again on the unchanged store
ReexportRank ==
    /\ d_op = "rank"
    /\ Len(d_out) = 1
    /\ \E file \in company_rank_files(d_spec, d_rows) :
          d_out' = Append(d_out, file)
    /\ UNCHANGED <<main_vars, exec_vars, ctx_vars, sql_vars, d_op, d_spec, d_rows>>

\* the enrich statement is executed on the source rows
ApplyEnrich ==
    /\ d_op = "enrich"
    /\ d_out = <<>>
    /\ d_out' = <<enrich_rows(d_spec, d_rows)>>
    /\ UNCHANGED <<main_vars, exec_vars, ctx_vars, sql_vars, d_op, d_spec, d_rows>>

NextData ==
    \/ ApplyEnrich
    \/ ApplyScope
    \/ ApplyUnique
    \/ RerunUnique
    \/ ExportRank
    \/ ReexportRank

SpecData == InitData /\ [][NextData]_vars

----------------------------------------------------------------------------
(* Vocabulary for the properties *)

Positions(p) == 1..Len(p)

Unregistered(p, j) == p[j].func_name \notin DefaultLibrary

\* step j reuses the non-empty save_as of an earlier step
Repeats(p, j) ==
    p[j].save_as # "" /\ \E i \in 1..(j - 1) : p[i].save_as = p[j].save_as

HasRepeat(p) == \E j \in Positions(p) : Repeats(p, j)

EarliestRepeat(p) ==
    CHOOSE j \in Positions(p) : Repeats(p, j) /\ \A k \in 1..(j - 1) : ~Repeats(p, k)

InPhase(p, j) == p[j].func_name \in {"scope", "unique", "enrich"}

\* step j is in a phase that precedes the phase of some earlier step
OutOfPhase(p, j) ==
    /\ InPhase(p, j)
    /\ \E i \in 1..(j - 1) :
          /\ InPhase(p, i)
          /\ order_phases[p[j].func_name] < order_phases[p[i].func_name]

AllRegistered(p) == \A j \in Positions(p) : ~Unregistered(p, j)

\* the source of step k is the reserved table or the logical name that the
\* Func of an earlier step allocates
StaticResolvable(p, k) ==
    \/ p[k].func_name = "cleanup"
    \/ p[k].source = "isld_pure"
    \/ \E i \in 1..(k - 1) :
          /\ InPhase(p, i)
          /\ AllocatedLogical[p[i].func_name] = p[k].source

Validated == pc # "validating" /\ error.type # "PlanError"

EventsOf(op) == {n \in 1..Len(trace) : trace[n].op = op}
Created == {trace[n].table : n \in {m \in EventsOf("create") : trace[m].ok}}
DropAttempted == {trace[n].table : n \in EventsOf("drop")}
BuiltSteps == {trace[n].step : n \in EventsOf("build")}
HasCleanup(p) == \E k \in Positions(p) : p[k].func_name = "cleanup"

----------------------------------------------------------------------------
(* Properties *)

\* C1: when PlanValidator.validate raises PlanError inside execute, no
\* build_sql has been invoked, no physical name allocated, no statement
\* executed or committed, no result set registered, no export or cleanup run.
C1_ValidationFailureRunsNothing ==
    error.type = "PlanError" =>
        /\ pc = "raised"
        /\ trace = <<>>
        /\ ctx.step_counter = 0 /\ ctx.temp_map = <<>>
        /\ tables = {}
        /\ select_registry = {}
        /\ files = <<>>
        /\ ~deferred_cleanup.present /\ cleanup_pos = 1

C1_Witness ==
    pc = "raised" /\ error.type = "PlanError" /\ error.index >= 1

C3_PhaseOrderIff ==
    (pc # "validating" /\ AllRegistered(plan) /\ ~HasRepeat(plan)) =>
        /\ (error.type = "PlanError") <=> (\E j \in Positions(plan) : OutOfPhase(plan, j))
        /\ error.type = "PlanError" =>
              /\ error.reason = "order"
              /\ OutOfPhase(plan, error.index + 1)
              /\ \A k \in 1..error.index : ~OutOfPhase(plan, k)

C3_Witness ==
    /\ pc = "raised" /\ error.reason = "order" /\ error.index = 2
    /\ InPhase(plan, 1) /\ ~InPhase(plan, 2)
    /\ AllRegistered(plan) /\ ~HasRepeat(plan)

\* C4 as stated: no build_sql call of an accepted plan fails on an
\* unresolved logical name.
C4_AcceptedPlansResolve ==
    Validated => ~(error.type = "KeyError" /\ error.reason = "resolve_temp")

\* C4 amended: an accepted plan has registered funcs, no repeated save_as and
\* non-decreasing phases; validate does not look at source arguments, so
\* build_sql of step k raises KeyError exactly when the source of k is neither
\* the reserved table nor allocated by an earlier step, and the tables of the
\* earlier steps stay in the store.
C4_AcceptedPlansAreOrderedOnly ==
    /\ Validated =>
          /\ AllRegistered(plan)
          /\ ~HasRepeat(plan)
          /\ \A j \in Positions(plan) : ~OutOfPhase(plan, j)
    /\ (error.type = "KeyError" /\ error.reason = "resolve_temp") =>
          /\ ~StaticResolvable(plan, idx)
          /\ \A k \in 1..(idx - 1) : StaticResolvable(plan, k)
          /\ tables = Created
          /\ Cardinality(tables) = ctx.step_counter
    /\ \A n \in 1..Len(trace) :
          trace[n].op \in {"create", "register"} =>
              StaticResolvable(plan, trace[n].step)

C4_Witness ==
    /\ pc = "raised" /\ error.type = "KeyError" /\ error.reason = "resolve_temp"
    /\ tables # {}

\* C5: no DROP of cleanup is executed before every export has completed, every
\* table a registered result set reads exists while exports run, and every
\* materialization precedes every export.
C5_CleanupAfterExport ==
    /\ \A a, b \in 1..Len(trace) :
          a < b => /\ ~(trace[a].op = "drop" /\ trace[b].op = "export")
                   /\ ~(trace[a].op = "export" /\ trace[b].op = "create")
    /\ pc = "exporting" =>
          \A s \in select_registry : TableExists(s.sql.from, tables)
    /\ \A n \in EventsOf("drop") : pc \in {"cleaning", "done"}

C5_Witness ==
    /\ pc = "done"
    /\ \E a, b \in 1..Len(trace) :
          /\ a < b
          /\ trace[a].op = "export" /\ trace[a].ok /\ trace[a].table # IsldPure
          /\ trace[b].op = "drop" /\ trace[b].ok /\ trace[b].table = trace[a].table
    /\ plan[Len(plan)].func_name # "cleanup"

\* C6: after a normal completion without stop_after of a plan with a cleanup
\* step at any position, a DROP was attempted for every table the call
\* created and, when no DROP failed, none of them remains.
C6_CleanupReachesEveryTable ==
    (pc = "done" /\ stop_after = None /\ HasCleanup(plan)) =>
        /\ Created \subseteq DropAttempted
        /\ (\A n \in EventsOf("drop") : trace[n].ok) => tables = {}

\* C7: cleanup is best-effort: every generated statement is attempted whatever
\* the others did, no exception leaves execute, and the run completes.
C7_CleanupBestEffort ==
    /\ cleanup_pos > 1 => (pc \in {"cleaning", "done"} /\ error = NoError)
    /\ (pc = "done" /\ deferred_cleanup.present) =>
          LET sql == deferred_cleanup.sql
              base == Len(trace) - Len(sql)
          IN /\ cleanup_pos = Len(sql) + 1
             /\ base >= 0
             /\ \A n \in 1..Len(sql) :
                   /\ trace[base + n].op = sql[n].kind
                   /\ trace[base + n].table = sql[n].table

C7_Witness ==
    /\ pc = "done"
    /\ \E a, b \in EventsOf("drop") : a < b /\ ~trace[a].ok /\ trace[b].ok

\* C8: with stop_after = X the steps run in plan order up to and including the
\* first step whose func is X, then execute returns: no later step is built,
\* nothing is exported, no cleanup statement runs, the tables stay.
C8_StopAfterStopsAtFirstMatch ==
    /\ pc = "stopped" =>
          /\ stop_after # None
          /\ plan[idx].func_name = stop_after
          /\ \A k \in 1..(idx - 1) : plan[k].func_name # stop_after
          /\ BuiltSteps = 1..idx
          /\ EventsOf("export") = {} /\ files = <<>>
          /\ EventsOf("drop") = {} /\ EventsOf("select1") = {} /\ cleanup_pos = 1
          /\ tables = Created
          /\ Cardinality(tables) = ctx.step_counter
    /\ stop_after # None =>
          \A k \in BuiltSteps : \A m \in 1..(k - 1) : plan[m].func_name # stop_after
    /\ (stop_after # None /\ \E k \in Positions(plan) : plan[k].func_name = stop_after) =>
          pc \notin {"exporting", "cleaning", "done"}

C8_Witness ==
    /\ pc = "stopped" /\ idx < Len(plan) /\ tables # {}
    /\ \E k \in (idx + 1)..Len(plan) : plan[k].func_name = stop_after

\* C9: with dry_run and no stop_after every non-cleanup step is materialized
\* or registered, no output file is created, and the deferred cleanup still
\* executes.
C9_DryRunSkipsExportOnly ==
    (dry_run /\ stop_after = None) =>
        /\ files = <<>> /\ EventsOf("export") = {}
        /\ pc = "done" =>
              /\ BuiltSteps = Positions(plan)
              /\ Cardinality(Created) =
                    Cardinality({k \in Positions(plan) : InPhase(plan, k)})
              /\ {s.ref_name : s \in select_registry} =
                    {plan[k].save_as : k \in {m \in Positions(plan) :
                                                plan[m].func_name \in SelectFuncs}}
              /\ deferred_cleanup.present <=> HasCleanup(plan)
              /\ deferred_cleanup.present =>
                    /\ cleanup_pos = Len(deferred_cleanup.sql) + 1
                    /\ \A n \in 1..Len(deferred_cleanup.sql) :
                          deferred_cleanup.sql[n].kind = "drop" =>
                              deferred_cleanup.sql[n].table \in DropAttempted

C9_Witness ==
    /\ dry_run /\ stop_after = None /\ pc = "done"
    /\ select_registry # {}
    /\ \E n \in EventsOf("drop") : trace[n].ok

\* what execute returns on each of its normal exits
ReturnedFor == [stop_after |-> None, dry_run |-> None, completed |-> None]

Outcome ==
    IF pc = "stopped" THEN "stop_after"
    ELSE IF dry_run THEN "dry_run" ELSE "completed"

\* C10: the value execute returns tells the caller which of the three outcomes
\* occurred: it is the value of that outcome and of no other.
C10_ReturnTellsOutcome ==
    pc \in {"stopped", "done"} =>
        /\ ret = ReturnedFor[Outcome]
        /\ \A o \in DOMAIN ReturnedFor : o # Outcome => ret # ReturnedFor[o]

\* the events that a failed materialization left in the trace
FailedCreates == {n \in EventsOf("create") : ~trace[n].ok}

\* C11: when the store rejects the statement of a temp-producing step k,
\* execute raises SqlError for step k at once: the failed statement is the
\* last thing that happened, no later step is built, nothing is exported or
\* dropped, no output file exists, and the tables that earlier steps created
\* are all still in the store.
C11_MaterializeFailureStopsRun ==
    (error.type = "SqlError" /\ error.reason = "execute") =>
        /\ pc = "raised"
        /\ error.index = idx - 1
        /\ produces(plan[idx].func_name) = "temp"
        /\ FailedCreates = {Len(trace)}
        /\ trace[Len(trace)].step = idx
        /\ BuiltSteps = 1..idx
        /\ EventsOf("export") = {}
        /\ EventsOf("drop") = {}
        /\ EventsOf("select1") = {}
        /\ files = <<>>
        /\ tables = Created
        /\ trace[Len(trace)].table \notin tables
        /\ ret = "pending"

\* a later temp step fails after an earlier one has left its table behind
C11_Witness ==
    /\ error.type = "SqlError" /\ error.reason = "execute"
    /\ idx > 1
    /\ tables # {}
    /\ HasCleanup(plan)

\* the step loop is at a select-producing step and the step does not raise
SelectStepActs ==
    /\ pc = "running"
    /\ idx <= Len(plan)
    /\ plan[idx].func_name \in SelectFuncs
    /\ pc' # "raised"

\* what the trace gained in one step
NewEvents == {trace'[n] : n \in (Len(trace) + 1)..Len(trace')}

\* every execution of a registered query is the export of an output that
\* names its registry entry
QueriesRunOnlyInExport ==
    /\ EventsOf("query") = {}
    /\ \A n \in EventsOf("export") :
          /\ trace[n].step \in 1..Len(outputs)
          /\ RegistryHas(select_registry, outputs[trace[n].step])
          /\ RegistryGet(select_registry, outputs[trace[n].step]).sql.from
                = trace[n].table
          /\ \E k \in 1..(idx - 1) :
                /\ plan[k].func_name \in SelectFuncs
                /\ plan[k].save_as = outputs[trace[n].step]

\* C12: a select-producing step executes no statement and leaves the set of
\* tables (and the context and the files) as they were; its only effect is
\* one registry entry under the step's save_as holding its query. The query
\* itself runs only when an output naming that entry is exported.
C12_SelectStepOnlyRegisters ==
    /\ []QueriesRunOnlyInExport
    /\ [][SelectStepActs =>
            /\ tables' = tables
            /\ ctx' = ctx
            /\ files' = files
            /\ deferred_cleanup' = deferred_cleanup
            /\ \A e \in NewEvents : e.op \in {"build", "register"}
            /\ \E e \in select_registry' :
                  /\ e.ref_name = plan[idx].save_as
                  /\ e.sql.kind = "query"
                  /\ select_registry' =
                       {x \in select_registry : x.ref_name # plan[idx].save_as}
                         \cup {e}]_vars

\* a select step has registered its query while a table is in the store,
\* and the query has been exported
C12_Witness ==
    /\ EventsOf("register") # {}
    /\ tables # {}
    /\ \E n \in EventsOf("export") : trace[n].ok

\* context d is context c after exactly one allocate_temp call
OneAllocation(c, d) ==
    /\ d.step_counter = c.step_counter + 1
    /\ d.run_id = c.run_id /\ d.job_id = c.job_id
    /\ \E name \in {"scope", "uq", "enriched"} :
          /\ d = allocate_temp(c, name).ctx
          /\ resolve_temp(d, name) =
                PhysicalName(c.run_id, c.job_id, d.step_counter, name)
          /\ \A other \in {"scope", "uq", "enriched"} \ {name} :
                /\ CanResolve(d, other) = CanResolve(c, other)
                /\ CanResolve(c, other) =>
                      resolve_temp(d, other) = resolve_temp(c, other)

\* the store is touched for step k only after build_sql of step k returned
StoreEventsFollowBuild ==
    \A n \in 1..Len(trace) :
       trace[n].op \in {"create", "commit", "count", "register"} =>
          \E m \in 1..(n - 1) : trace[m].op = "build" /\ trace[m].step = trace[n].step

\* C15: at every context the run reaches, a build_sql call that returns
\* changes the context by exactly one allocation when the Func is scope,
\* unique or enrich, and not at all when it is a sel_* Func or cleanup;
\* building touches no table (the store is used only after build returned).
C15_BuildSqlAllocatesOnceOrNever ==
    /\ StoreEventsFollowBuild
    /\ error.reason = "resolve_temp" =>
          trace[Len(trace)].op = "build" /\ tables = Created
    /\ \A step \in StepUniverse :
          has(step.func_name) =>
            LET r == build_sql(ctx, step) IN
              ~r.raised =>
                IF step.func_name \in {"scope", "unique", "enrich"}
                THEN OneAllocation(ctx, r.ctx)
                ELSE r.ctx = ctx

\* a context with two allocations at which a select step builds successfully
C15_Witness ==
    /\ ctx.step_counter >= 2
    /\ pc = "running"
    /\ idx <= Len(plan)
    /\ plan[idx].func_name \in SelectFuncs
    /\ ~build_sql(ctx, plan[idx]).raised

\* C13: any two allocate_temp calls, in one context or in the contexts of
\* two execute calls against the same store, return different physical names.
C13_AllocatedNamesDiffer ==
    \A m, n \in 1..Len(allocs) :
       m # n => allocs[m].physical # allocs[n].physical

\* the subset of C13 that the naming scheme itself guarantees: calls of one
\* context, and calls of contexts whose (run id, job id) pairs differ
AllocatedNamesDifferUnlessSameRunAndJob ==
    \A m, n \in 1..Len(allocs) :
       (/\ m # n
        /\ \/ allocs[m].who = allocs[n].who
           \/ ctx_a.run_id # ctx_b.run_id
           \/ ctx_a.job_id # ctx_b.job_id)
         => allocs[m].physical # allocs[n].physical

ContextOf(who) == IF who = "a" THEN ctx_a ELSE ctx_b

\* the allocations of logical name n in context who, by position in allocs
AllocationsOf(who, n) ==
    {k \in 1..Len(allocs) : allocs[k].who = who /\ allocs[k].logical = n}

MostRecent(who, n) ==
    CHOOSE k \in AllocationsOf(who, n) : \A j \in AllocationsOf(who, n) : j <= k

\* C14: after any sequence of allocate_temp calls, resolve_temp(n) is the
\* physical name the most recent allocate_temp(n) returned; it raises
\* KeyError exactly when n was never allocated and is not 'isld_pure'; and
\* resolve_temp('isld_pure') is the fixed name 'isld_pure' whether or not
\* 'isld_pure' has itself been allocated.
C14_ResolveReturnsLatestAllocation ==
    \A who \in {"a", "b"} : \A n \in LogicalNames \cup {"enriched"} :
       LET c == ContextOf(who) IN
         IF n = "isld_pure"
         THEN CanResolve(c, n) /\ resolve_temp(c, n) = IsldPure
         ELSE /\ CanResolve(c, n) <=> AllocationsOf(who, n) # {}
              /\ AllocationsOf(who, n) # {} =>
                    resolve_temp(c, n) = allocs[MostRecent(who, n)].physical

\* one context has allocated a name twice and 'isld_pure' once
C14_Witness ==
    \E n \in LogicalNames \ {"isld_pure"} :
       /\ Cardinality(AllocationsOf("a", n)) = 2
       /\ AllocationsOf("a", "isld_pure") # {}
       /\ ~CanResolve(ctx_b, n)

\* two argument maps populate the same fields with lists of the same
\* lengths and agree on everything that is not a configured value
SameShape(func_name, a, b) ==
    IF func_name = "scope"
    THEN /\ Len(a.companies) = Len(b.companies)
         /\ Len(a.countries) = Len(b.countries)
         /\ Len(a.country_prefixes) = Len(b.country_prefixes)
         /\ (a.date_from = None) = (b.date_from = None)
         /\ (a.date_to = None) = (b.date_to = None)
    ELSE /\ Len(a.countries) = Len(b.countries)
         /\ a.period = b.period
         /\ a.include_all = b.include_all
         /\ a.unit_col = b.unit_col

\* C16: for every Func of the default library, two argument maps of the same
\* shape that differ only in configured values give the same SQL text.
C16_SqlTextIndependentOfValues ==
    (q_out # <<>> /\ SameShape(q_func, q_args[1], q_args[2])) =>
        q_out[1].sql = q_out[2].sql

\* what holds of C16: ScopeFunc binds every configured value
ScopeTextIndependentOfValues ==
    (q_out # <<>> /\ q_func = "scope" /\ SameShape(q_func, q_args[1], q_args[2])) =>
        q_out[1].sql = q_out[2].sql

\* a unique step with a key column has been given to the model
UniqueByKey == d_op = "unique" /\ d_spec.unit # "none"

\* C17: for every UniqueSpec with unit other than 'none' the last ORDER BY
\* key is __src_rownum ASC.
C17_LastOrderKeyIsRownumAsc ==
    (UniqueByKey /\ d_out # <<>>) =>
        LET parts == order_parts(d_spec)
        IN parts[Len(parts)] = OrderByItem("__src_rownum", "ASC")

\* what holds of C17: no two distinct rows of one partition tie in rank
NoTieInPartition ==
    UniqueByKey =>
        \A r, t \in d_rows :
           (r # t /\ SamePartition(r, t, partition_cols(d_spec))) =>
              Before(r, t, order_parts(d_spec)) \/ Before(t, r, order_parts(d_spec))

\* the source columns of an output row
SourceColumns(s) == [c \in Columns |-> s[c]]

KeyValues(rows, col) == {r[col] : r \in rows} \ {Null}

\* the unique step has run at least once
UniqueRan == UniqueByKey /\ d_out # <<>>

\* C18 as stated: every non-null key value of the input is in exactly one
\* output row and no output row has a null key, whatever partition_extra is.
C18_EachKeyOnce ==
    UniqueRan =>
        \A n \in 1..Len(d_out) :
           /\ \A k \in KeyValues(d_rows, key_col(d_spec)) :
                 Cardinality({s \in d_out[n] : s[key_col(d_spec)] = k}) = 1
           /\ \A s \in d_out[n] : s[key_col(d_spec)] # Null

\* C18: every input row with a non-null key has exactly one output row with
\* the same key and the same values of the partition_extra columns; output
\* rows are input rows with a non-null key; so with an empty
\* partition_extra every non-null key value is in exactly one output row.
C18_EachPartitionOnce ==
    UniqueRan =>
        \A n \in 1..Len(d_out) :
           /\ \A r \in d_rows :
                 r[key_col(d_spec)] # Null =>
                   Cardinality(
                     {s \in d_out[n] :
                        /\ s[key_col(d_spec)] = r[key_col(d_spec)]
                        /\ \A m \in 1..Len(d_spec.partition_extra) :
                              s[d_spec.partition_extra[m]]
                                = r[d_spec.partition_extra[m]]}) = 1
           /\ \A s \in d_out[n] :
                 /\ s[key_col(d_spec)] # Null
                 /\ SourceColumns(s) \in d_rows
           /\ d_spec.partition_extra = <<>> =>
                 \A k \in KeyValues(d_rows, key_col(d_spec)) :
                    Cardinality({s \in d_out[n] : s[key_col(d_spec)] = k}) = 1

\* one key with two values of the extra partition column, and a null key
C18_Witness ==
    /\ UniqueRan
    /\ d_spec.partition_extra # <<>>
    /\ \E r, t \in d_rows :
          /\ r["PUBL_NUMBER"] = t["PUBL_NUMBER"]
          /\ r["PUBL_NUMBER"] # Null
          /\ r["Country_Of_Registration"] # t["Country_Of_Registration"]
    /\ \E r \in d_rows : r["PUBL_NUMBER"] = Null
    /\ Cardinality(d_out[1]) = 2

\* r sorts strictly before s under the caller's keys and directions alone
CallerBefore(r, s) == Before(r, s, d_spec.keep.order_by)

\* r and s agree on every key of the caller
CallerTie(r, s) ==
    \A n \in 1..Len(d_spec.keep.order_by) :
       r[d_spec.keep.order_by[n].col] = s[d_spec.keep.order_by[n].col]

\* C19: the kept row of a partition is first under the caller's order_by;
\* among the rows tying with it on all of the caller's keys it has the
\* smallest __src_rownum; and a second run keeps the same rows.
C19_KeptRowIsFirstAndStable ==
    UniqueRan =>
        /\ \A n \in 1..Len(d_out) : \A s \in d_out[n] : \A t \in d_rows :
              (/\ t[key_col(d_spec)] # Null
               /\ SamePartition(s, t, partition_cols(d_spec)))
                =>
                  /\ ~CallerBefore(t, s)
                  /\ CallerTie(t, s) => s["__src_rownum"] <= t["__src_rownum"]
        /\ \A m, n \in 1..Len(d_out) : d_out[m] = d_out[n]

\* two rows of one partition tie on the caller's only key, the unique step
\* has run twice, and the kept row is not the one with the largest date
C19_Witness ==
    /\ UniqueByKey
    /\ Len(d_out) = 2
    /\ Len(d_spec.keep.order_by) = 1
    /\ d_spec.keep.order_by[1].col = "PBPA_APP_DATE"
    /\ \E r, t \in d_rows :
          /\ r # t
          /\ r["PUBL_NUMBER"] # Null
          /\ SamePartition(r, t, partition_cols(d_spec))
          /\ r["PBPA_APP_DATE"] = t["PBPA_APP_DATE"]
          /\ Ranked(r) \in d_out[1]

\* no predicate field of the ScopeSpec is populated
NoFieldPopulated(spec) ==
    /\ spec.companies = <<>>
    /\ spec.countries = <<>>
    /\ spec.country_prefixes = <<>>
    /\ spec.date_from = None
    /\ spec.date_to = None

\* C20: a scope step whose ScopeSpec populates no predicate field gives
\* exactly the rows of its source: none dropped, none added, none altered.
C20_EmptyScopeKeepsAllRows ==
    (d_op = "scope" /\ d_out # <<>> /\ NoFieldPopulated(d_spec)) =>
        d_out[1] = d_rows

\* an empty ScopeSpec has been applied to a table of several rows
C20_Witness ==
    /\ d_op = "scope"
    /\ d_out # <<>>
    /\ NoFieldPopulated(d_spec)
    /\ Cardinality(d_rows) >= 2
    /\ Cardinality(d_out[1]) >= 2

\* the same ScopeSpec with both country lists emptied
WithoutCountryLists(spec) ==
    [spec EXCEPT !.countries = <<>>, !.country_prefixes = <<>>]

\* C21: with country_mode 'ALL' the countries and country_prefixes
\* predicates are inert: the scope output is the output of the same
\* ScopeSpec with both lists empty.
C21_CountryModeAllIsInert ==
    (d_op = "scope" /\ d_out # <<>> /\ d_spec.country_mode = "ALL") =>
        d_out[1] = scope_rows(WithoutCountryLists(d_spec), d_rows)

\* what holds instead: the two country lists restrict rows in either mode
CountryModeIsNotRead ==
    (d_op = "scope" /\ d_out # <<>>) =>
        \A cm \in {"ALL", "FILTER"} :
           d_out[1] = scope_rows([d_spec EXCEPT !.country_mode = cm], d_rows)

RerunWritesSameFileWithoutTies ==
    (/\ d_op = "rank"
     /\ Len(d_out) = 2
     /\ \A g, h \in rank_counted(d_spec, d_rows) :
           (g # h /\ g.country = h.country) => g.cnt # h.cnt)
      => d_out[1] = d_out[2]

\* the declaration date of a row: the preferred of signature and reflected
\* date that is neither NULL nor the sentinel, else the other one
ResolvedDeclDate(r) ==
    LET usable(x) == x # Null /\ x # "1900-01-01"
        first == IF d_spec.decl_date_policy = "reflected_first"
                 THEN r["Reflected_Date"] ELSE r["IPRD_SIGNATURE_DATE"]
        second == IF d_spec.decl_date_policy = "reflected_first"
                  THEN r["IPRD_SIGNATURE_DATE"] ELSE r["Reflected_Date"]
    IN IF usable(first) THEN first ELSE IF usable(second) THEN second ELSE Null

IsDate(x) == x \in DOMAIN DayNumber

\* the signed day difference v of a row is defined (not null)
HasDayDifference(r) ==
    IsDate(ResolvedDeclDate(r)) /\ IsDate(r["PBPA_APP_DATE"])

DayDifference(r) == DayNumber[ResolvedDeclDate(r)] - DayNumber[r["PBPA_APP_DATE"]]

\* C23: with v the signed day difference between the resolved decl_date and
\* PBPA_APP_DATE, lag_days is v under 'keep', max(0, v) under 'zero', null
\* if v < 0 else v under 'null'; when v is null lag_days is null under every
\* policy, and every source row has its output row (no row fails).
C23_LagDaysFollowsPolicy ==
    (d_op = "enrich" /\ d_out # <<>>) =>
        /\ {s["__src_rownum"] : s \in d_out[1]}
             = {r["__src_rownum"] : r \in d_rows}
        /\ Cardinality(d_out[1]) = Cardinality(d_rows)
        /\ \A s \in d_out[1] :
              LET lag == s["lag_days"]
                  p == d_spec.negative_lag_policy
              IN IF ~HasDayDifference(s) THEN lag.null
                 ELSE LET v == DayDifference(s) IN
                   /\ p = "keep" => ~lag.null /\ lag.v = v
                   /\ p = "zero" => ~lag.null /\ lag.v = (IF v < 0 THEN 0 ELSE v)
                   /\ p = "null" => IF v < 0 THEN lag.null
                                    ELSE ~lag.null /\ lag.v = v

\* one row has v = -5 and another has no day difference, under 'zero'
C23_Witness ==
    /\ d_op = "enrich"
    /\ d_out # <<>>
    /\ d_spec.negative_lag_policy = "zero"
    /\ \E s, t \in d_out[1] :
          /\ HasDayDifference(s) /\ DayDifference(s) = -5
          /\ ~s["lag_days"].null /\ s["lag_days"].v = 0
          /\ ~HasDayDifference(t)
          /\ t["lag_days"].null

----------------------------------------------------------------------------
(* templates/*.py: the five default TemplateBuilders.  A step keeps the
   func name, save_as and the source it reads; the other arguments
   (scope_spec, period, countries, unit_col, ...) do not shape the plan. *)

\* what a builder returns: (plan, outputs), outputs by their select_ref
Built(p, outs) == [plan |-> p, outputs |-> outs]

NothingBuilt == Built(<<>>, <<>>)

\* TsFilingCountBuilder.build
build_ts_filing_count(job) ==
    Built(<<Step("scope", "scope", "isld_pure"),
            Step("sel_filing_count_ts", "sel__A", "scope"),
            Step("cleanup", "", "")>>,
          <<"sel__A">>)

build_ts_lag_stats_WrongRef(job) ==
    Built(<<Step("scope", "scope", "isld_pure"),
            Step("enrich", "enriched", "scope"),
            Step("sel_lag_stats", "sel__B", "enriched"),
            Step("cleanup", "", "")>>,
          <<"enriched">>)

\* TsLagStatsBuilder.build
build_ts_lag_stats(job) ==
    Built(<<Step("scope", "scope", "isld_pure"),
            Step("enrich", "enriched", "scope"),
            Step("sel_lag_stats", "sel__B", "enriched"),
            Step("cleanup", "", "")>>,
          <<"sel__B">>)

\* TsTopSpecsBuilder.build
build_ts_top_specs(job) ==
    Built(<<Step("scope", "scope", "isld_pure"),
            Step("sel_top_specs_ts", "sel__C", "scope"),
            Step("cleanup", "", "")>>,
          <<"sel__C">>)

\* RankCompanyCountsBuilder.build: job.unique.unit only picks unit_col
build_rank_company_counts(job) ==
    Built(<<Step("scope", "scope", "isld_pure"),
            Step("sel_company_rank", "sel__D", "scope"),
            Step("cleanup", "", "")>>,
          <<"sel__D">>)

\* HeatSpecCompanyBuilder.build
build_heat_spec_company(job) ==
    Built(<<Step("scope", "scope", "isld_pure"),
            Step("sel_spec_company_heat", "sel__E", "scope"),
            Step("cleanup", "", "")>>,
          <<"sel__E">>)

\* create_default_registry: the template names registered
DefaultTemplates ==
    {"ts_filing_count", "ts_lag_stats", "ts_top_specs",
     "rank_company_counts", "heat_spec_company"}

\* registry.get(job.template).build(job)
build(job) ==
    IF job.template = "ts_filing_count" THEN build_ts_filing_count(job)
    ELSE IF job.template = "ts_lag_stats" THEN build_ts_lag_stats(job)
    ELSE IF job.template = "ts_top_specs" THEN build_ts_top_specs(job)
    ELSE IF job.template = "rank_company_counts"
      THEN build_rank_company_counts(job)
    ELSE build_heat_spec_company(job)

----------------------------------------------------------------------------
(* config/validate.py *)

ALLOWED_TEMPLATES == DefaultTemplates
ALLOWED_UNIQUE_UNITS == {"publ", "app", "family", "dipg", "none"}
ALLOWED_NEG_LAG_POLICIES == {"keep", "zero", "null", "drop"}

\* ConfigValidator.validate: _check_env, _check_defaults, _check_jobs;
\* TRUE when no ConfigError is raised
config_valid(cfg) ==
    /\ cfg.env_keys
    /\ cfg.defaults_unit \in ALLOWED_UNIQUE_UNITS
    /\ cfg.template \in ALLOWED_TEMPLATES
    /\ cfg.negative_lag_policy \in ALLOWED_NEG_LAG_POLICIES

----------------------------------------------------------------------------
(* main.py: one process run.  The store is the SQLite file at
   env.sqlite_path: whether the file exists, whether this process holds an
   open read-write connection, its journal mode, and the state of the
   isld_pure table. *)

Store(file, conn, journal, isld) ==
    [file |-> file, conn |-> conn, journal_mode |-> journal, isld_pure |-> isld]

\* what the process can find at env.sqlite_path when it starts
InitialStores ==
    { Store(FALSE, FALSE, "none", "absent"),
      Store(TRUE, FALSE, "delete", "absent"),
      Store(TRUE, FALSE, "wal", "absent"),
      Store(TRUE, FALSE, "wal", "empty"),
      Store(TRUE, FALSE, "wal", "loaded") }

\* the command line, the config file and the files it names
MainInputs ==
    [ config_file : BOOLEAN,
      env_keys : BOOLEAN,
      defaults_unit : {"publ", "none", "bogus"},
      negative_lag_policy : {"keep", "bogus"},
      template : DefaultTemplates \cup {"bogus"},
      csv_exists : BOOLEAN,
      headers_ok : BOOLEAN,
      only_load : BOOLEAN,
      store0 : InitialStores ]

InitMain ==
    /\ m_pc = "config"
    /\ m_in \in MainInputs
    /\ m_store = m_in.store0
    /\ m_built = NothingBuilt
    /\ m_exit = None
    /\ ExecIdle
    /\ CtxIdle
    /\ SqlIdle
    /\ DataIdle

MainOthers == <<exec_vars, ctx_vars, sql_vars, data_vars>>

\* raw = ConfigLoader.load(args.config): a missing or unparsable file
LoadConfig ==
    /\ m_pc = "config"
    /\ IF m_in.config_file
         THEN m_pc' = "validate" /\ m_exit' = m_exit
         ELSE m_pc' = "exit" /\ m_exit' = "ConfigError"
    /\ UNCHANGED <<m_in, m_store, m_built, MainOthers>>

\* ConfigValidator.validate(raw); jobs = JobCompiler.compile(raw)
ValidateConfig ==
    /\ m_pc = "validate"
    /\ IF config_valid(m_in)
         THEN m_pc' = "open" /\ m_exit' = m_exit
         ELSE m_pc' = "exit" /\ m_exit' = "ConfigError"
    /\ UNCHANGED <<m_in, m_store, m_built, MainOthers>>

\* sio = SqliteIO(env.sqlite_path); sio.open(): mkdir, connect (creates the
\* file), PRAGMA journal_mode=WAL
OpenStore ==
    /\ m_pc = "open"
    /\ m_store' = [m_store EXCEPT !.file = TRUE, !.conn = TRUE,
                                  !.journal_mode = "wal"]
    /\ m_pc' = "load"
    /\ UNCHANGED <<m_in, m_built, m_exit, MainOthers>>

\* finally: sio.close()
Closed(st) == [st EXCEPT !.conn = FALSE]

\* load_if_needed(env, sio, progress), then `if args.only_load: return`
LoadIfNeeded ==
    /\ m_pc = "load"
    /\ IF m_store.isld_pure # "absent"
         THEN \* table_exists: use the table as it is
              IF m_in.only_load
                THEN /\ m_store' = Closed(m_store)
                     /\ m_pc' = "exit" /\ m_exit' = "Ok"
                ELSE /\ m_store' = m_store
                     /\ m_pc' = "jobs" /\ m_exit' = m_exit
       ELSE IF ~m_in.csv_exists
         THEN \* raise ConfigError("CSV ...")
              /\ m_store' = Closed(m_store)
              /\ m_pc' = "exit" /\ m_exit' = "ConfigError"
       ELSE IF ~m_in.headers_ok
         THEN \* create_table; commit; resolve_headers raises ConfigError
              /\ m_store' = Closed([m_store EXCEPT !.isld_pure = "empty"])
              /\ m_pc' = "exit" /\ m_exit' = "ConfigError"
       ELSE IF m_in.only_load
         THEN /\ m_store' = Closed([m_store EXCEPT !.isld_pure = "loaded"])
              /\ m_pc' = "exit" /\ m_exit' = "Ok"
       ELSE /\ m_store' = [m_store EXCEPT !.isld_pure = "loaded"]
            /\ m_pc' = "jobs" /\ m_exit' = m_exit
    /\ UNCHANGED <<m_in, m_built, MainOthers>>

\* builder = registry.get(job.template); plan, outputs = builder.build(job)
BuildJob ==
    /\ m_pc = "jobs"
    /\ m_built' = build(m_in)
    /\ m_pc' = "execute"
    /\ UNCHANGED <<m_in, m_store, m_exit, MainOthers>>

\* executor.execute(plan, outputs, job, ...); finally: sio.close().  The
\* run of a validated plan ends normally or with an SqlError of the engine.
ExecuteJob ==
    /\ m_pc = "execute"
    /\ IF validate(m_built.plan) # NoError
         THEN m_exit' = "PlanError"
         ELSE m_exit' \in {"Ok", "SqlError"}
    /\ m_store' = Closed(m_store)
    /\ m_pc' = "exit"
    /\ UNCHANGED <<m_in, m_built, MainOthers>>

NextMain ==
    \/ LoadConfig
    \/ ValidateConfig
    \/ OpenStore
    \/ LoadIfNeeded
    \/ BuildJob
    \/ ExecuteJob

SpecMain == InitMain /\ [][NextMain]_vars

\* C24: whenever main ends with a ConfigError, the store has not been
\* created, opened for writing or altered during that process run: it is
\* the store the process found.
C24_ConfigErrorBeforeStoreMutation ==
    (m_pc = "exit" /\ m_exit = "ConfigError") => m_store = m_in.store0

\* what does hold: a ConfigError of the config file itself (load, validate)
\* leaves the store as found
ConfigFileErrorBeforeStoreMutation ==
    (m_pc = "exit" /\ m_exit = "ConfigError"
        /\ ~(m_in.config_file /\ config_valid(m_in)))
      => m_store = m_in.store0

\* positions of the select-producing steps of a plan
SelectPositions(p) ==
    {i \in 1..Len(p) : has(p[i].func_name) /\ produces(p[i].func_name) = "select"}

\* scope first, then optional unique and enrich in that order, then one
\* select step, then cleanup
FixedOrder(p) ==
    /\ Len(p) >= 3
    /\ p[1].func_name = "scope"
    /\ p[Len(p)].func_name = "cleanup"
    /\ SelectPositions(p) = {Len(p) - 1}
    /\ \A i \in 2..(Len(p) - 2) : p[i].func_name \in {"unique", "enrich"}
    /\ \A i, j \in 2..(Len(p) - 2) :
          (i < j) => (p[i].func_name = "unique" /\ p[j].func_name = "enrich")

\* C26: the plan a default TemplateBuilder returns is accepted by
\* PlanValidator against the default library, follows the fixed order
\* scope, optional unique/enrich, one select step, cleanup last, and every
\* returned select_ref is the save_as of a select-producing step of the plan.
C26_TemplatesBuildValidOrderedPlans ==
    (m_pc \in {"execute", "exit"} /\ m_built # NothingBuilt) =>
        /\ validate(m_built.plan) = NoError
        /\ FixedOrder(m_built.plan)
        /\ \A k \in 1..Len(m_built.outputs) :
              \E i \in SelectPositions(m_built.plan) :
                  m_built.plan[i].save_as = m_built.outputs[k]
        /\ m_exit # "PlanError"

\* the ts_lag_stats job (the one with an enrich step) was built and run
C26_Witness ==
    /\ m_pc = "exit"
    /\ m_exit = "Ok"
    /\ m_in.template = "ts_lag_stats"
    /\ Len(m_built.plan) = 4
    /\ m_built.plan[2].func_name = "enrich"
    /\ m_built.outputs = <<"sel__B">>

\* C25: validation applies check (a) unknown func name to the whole plan
\* before (b) repeated save_as before (c) phase order: a plan with an
\* unregistered func is rejected as "unregistered", and a plan of registered
\* funcs with a repeated save_as as "duplicate", whatever later checks its
\* steps at smaller indices violate.
C25_ChecksInOrderAcrossPlan ==
    pc # "validating" =>
        /\ ~AllRegistered(plan) =>
              (error.type = "PlanError" /\ error.reason = "unregistered")
        /\ (AllRegistered(plan) /\ HasRepeat(plan)) =>
              (error.type = "PlanError" /\ error.reason = "duplicate")

\* what does hold: the three checks are applied step by step; the error is
\* that of the first step violating any check and, for that step, of the
\* first of (a), (b), (c) it violates
ChecksInOrderPerStep ==
    (pc # "validating" /\ error.type = "PlanError") =>
        LET j == error.index + 1 IN
          /\ \A k \in 1..(j - 1) :
                ~Unregistered(plan, k) /\ ~Repeats(plan, k) /\ ~OutOfPhase(plan, k)
          /\ error.reason =
               IF Unregistered(plan, j) THEN "unregistered"
               ELSE IF Repeats(plan, j) THEN "duplicate"
               ELSE "order"
          /\ error.reason = "order" => OutOfPhase(plan, j)

\* the physical names allocate_temp returned in context who
Returned(who) == {allocs[k].physical : k \in {j \in 1..Len(allocs) : allocs[j].who = who}}

\* the names all_temps() lists, as a set
Listed(c) == {all_temps(c)[n] : n \in 1..Len(all_temps(c))}

\* C27: after any sequence of allocate_temp calls on one context,
\* all_temps() is exactly the set of physical names those calls returned,
\* also when one logical name was allocated more than once.
C27_AllTempsListsEveryAllocation ==
    \A who \in {"a", "b"} : Listed(ContextOf(who)) = Returned(who)

\* what does hold: all_temps() lists, for each logical name allocated, the
\* physical name of its most recent allocation and nothing else
AllTempsListsLatestPerName ==
    \A who \in {"a", "b"} :
        Listed(ContextOf(who)) =
          {allocs[MostRecent(who, n)].physical :
             n \in {m \in LogicalNames : AllocationsOf(who, m) # {}}}

\* C28: a build_sql call that raises leaves the ExecutionContext as it was:
\* the step counter is not advanced and no mapping is recorded.
C28_RaisingBuildLeavesContext ==
    [][ctx_raised' # None => ctx_a' = ctx_a]_vars

\* what does hold: a call that raises KeyError on its source leaves the
\* context as it was; one that raises ValueError on the unit has advanced the
\* counter by one and mapped 'uq'
RaisingBuildLeavesContextOnKeyError ==
    [][/\ ctx_raised' = "KeyError" => ctx_a' = ctx_a
       /\ ctx_raised' = "ValueError" =>
             /\ ctx_a'.step_counter = ctx_a.step_counter + 1
             /\ MapHas(ctx_a'.temp_map, "uq")]_vars

\* stop_after names a func that no step of the plan uses
UnusedStop ==
    stop_after # None /\ \A k \in Positions(plan) : plan[k].func_name # stop_after

\* the run of a call that is never stopped: every step runs, the outputs
\* are exported unless dry_run, the deferred cleanup executes
RunsToTheEnd ==
    /\ pc # "stopped"
    /\ pc \in {"exporting", "cleaning", "done"} =>
          /\ BuiltSteps = Positions(plan)
          /\ idx = Len(plan) + 1
          /\ deferred_cleanup.present <=> HasCleanup(plan)
    /\ pc \in {"cleaning", "done"} =>
          files = (IF dry_run THEN <<>> ELSE outputs)
    /\ pc = "done" =>
          /\ ret = None
          /\ deferred_cleanup.present =>
                /\ cleanup_pos = Len(deferred_cleanup.sql) + 1
                /\ \A n \in 1..Len(deferred_cleanup.sql) :
                      \E e \in EventsOf(deferred_cleanup.sql[n].kind) :
                          trace[e].table = deferred_cleanup.sql[n].table

\* C29: when stop_after names a func that no step of the plan uses, execute
\* runs as it does with stop_after = None: it never stops early, every step
\* runs, the outputs are exported unless dry_run and the deferred cleanup
\* executes.
C29_UnusedStopAfterIsNone ==
    (stop_after = None \/ UnusedStop) => RunsToTheEnd

\* stop_after = 'enrich' on a plan scope, sel_filing_count_ts, cleanup: the
\* output was written and the table dropped
C29_Witness ==
    /\ UnusedStop
    /\ stop_after = "enrich"
    /\ pc = "done"
    /\ ~dry_run
    /\ Len(plan) = 3
    /\ files = outputs
    /\ \E n \in EventsOf("drop") : trace[n].ok
    /\ tables = {}

\* some step of the plan registers a result set under ref
RegisteredByPlan(p, ref) ==
    \E k \in Positions(p) :
        /\ has(p[k].func_name)
        /\ produces(p[k].func_name) = "select"
        /\ p[k].save_as = ref

\* C30: execute raises the KeyError of SelectRegistry.get exactly at the
\* first output whose select_ref no step of the plan registered: every step
\* has been built and its table committed, the outputs before it have been
\* written, no cleanup statement has been executed, and the tables created
\* are all still in the store.
C30_UnregisteredRefRaisesInExport ==
    /\ (error.type = "KeyError" /\ error.reason = "select_registry.get") =>
          LET k == error.index + 1 IN
            /\ pc = "raised"
            /\ ~dry_run
            /\ k \in 1..Len(outputs)
            /\ ~RegisteredByPlan(plan, outputs[k])
            /\ \A j \in 1..(k - 1) : RegisteredByPlan(plan, outputs[j])
            /\ BuiltSteps = Positions(plan)
            /\ files = SubSeq(outputs, 1, k - 1)
            /\ cleanup_pos = 1
            /\ DropAttempted = {}
            /\ tables = Created
    /\ (pc \in {"cleaning", "done"} /\ ~dry_run) =>
          \A k \in 1..Len(outputs) : RegisteredByPlan(plan, outputs[k])

\* plan scope, sel_filing_count_ts, cleanup with outputs sel__A, scope: the
\* first file is written, the second lookup raises, the scope table stays
C30_Witness ==
    /\ pc = "raised"
    /\ error = KeyError(1, "select_registry.get")
    /\ files = <<"sel__A">>
    /\ deferred_cleanup.present
    /\ Len(deferred_cleanup.sql) = 1
    /\ deferred_cleanup.sql[1].kind = "drop"
    /\ tables # {}

====
